---- MODULE Spec2Model ----
(***************************************************************************)
(* Chitaliya Jewelry Branding Studio (src/src/App.tsx): the placement      *)
(* state (jewelryImage, logoImage, logoSettings, isProcessing), the        *)
(* geometry resolver, the asynchronous canvas render pipeline, the upload  *)
(* pipeline and the export.                                                *)
(*                                                                         *)
(* Numbers.  JavaScript numbers are modelled as extended rationals         *)
(* <<n, d>> in lowest terms with d >= 0:  d > 0 is the rational n/d,       *)
(* <<1,0>> is Infinity, <<-1,0>> is -Infinity and <<0,0>> is NaN.          *)
(* Rounding of IEEE doubles is not modelled.                               *)
(*                                                                         *)
(* React.  A user event or a callback runs its handler, then React         *)
(* commits the new state and runs the effects whose dependencies changed;  *)
(* an effect that sets state causes one more commit.  The whole chain is   *)
(* one action.  Image loads and toBlob are callbacks delivered later, in   *)
(* any order: each is an action of its own.                                *)
(***************************************************************************)
EXTENDS Integers, Sequences, FiniteSets, TLC

----------------------------------------------------------------------------
(* Extended rational arithmetic *)

Abs(n) == IF n < 0 THEN -n ELSE n

Sign(n) == IF n < 0 THEN -1 ELSE IF n > 0 THEN 1 ELSE 0

RECURSIVE GCD(_, _)
GCD(a, b) == IF b = 0 THEN a ELSE GCD(b, a % b)

Norm(n, d) ==
    IF d = 0 THEN <<Sign(n), 0>>
    ELSE LET g == GCD(Abs(n), d) IN <<n \div g, d \div g>>

Q(n) == <<n, 1>>

NaN == <<0, 0>>

IsNaN(a) == a = NaN

IsFinite(a) == a[2] # 0

Neg(a) == <<-a[1], a[2]>>

Add(a, b) ==
    IF a[2] = 0 /\ b[2] = 0
    THEN IF a = b THEN a ELSE NaN
    ELSE Norm(a[1] * b[2] + b[1] * a[2], a[2] * b[2])

Sub(a, b) == Add(a, Neg(b))

Mul(a, b) == Norm(a[1] * b[1], a[2] * b[2])

\* 1/b; 1/0 is Infinity (the sign of zero is not modelled)
Recip(b) ==
    IF b[1] < 0 THEN <<-b[2], -b[1]>>
    ELSE IF b[1] = 0 /\ b[2] > 0 THEN <<1, 0>>
    ELSE <<b[2], b[1]>>

Div(a, b) == Mul(a, Recip(b))

\* a < b as JavaScript compares numbers: false when either is NaN
Less(a, b) ==
    /\ ~IsNaN(a)
    /\ ~IsNaN(b)
    /\ IF a[2] = 0 \/ b[2] = 0
       THEN /\ a # b
            /\ (a = <<-1, 0>> \/ b = <<1, 0>>)
       ELSE a[1] * b[2] < b[1] * a[2]

Leq(a, b) == ~IsNaN(a) /\ ~IsNaN(b) /\ ~Less(b, a)

MathMin(a, b) ==
    IF IsNaN(a) \/ IsNaN(b) THEN NaN ELSE IF Less(b, a) THEN b ELSE a

MathMax(a, b) ==
    IF IsNaN(a) \/ IsNaN(b) THEN NaN ELSE IF Less(a, b) THEN b ELSE a

----------------------------------------------------------------------------
(* Geometry resolver *)

PositionPreset == {"TL", "TC", "TR", "CL", "C", "CR", "BL", "BC", "BR"}

\* the switch with the right anchor computed without the logo's width
RawPositionRightEdge(preset, jewelryWidth, jewelryHeight, logoWidth, logoHeight, margin) ==
    LET left   == margin
        center == Div(Sub(jewelryWidth, logoWidth), Q(2))
        right  == Sub(jewelryWidth, margin)
        top    == margin
        middle == Div(Sub(jewelryHeight, logoHeight), Q(2))
        bottom == Sub(Sub(jewelryHeight, logoHeight), margin)
    IN CASE preset = "TL" -> [x |-> left,   y |-> top]
         [] preset = "TC" -> [x |-> center, y |-> top]
         [] preset = "TR" -> [x |-> right,  y |-> top]
         [] preset = "CL" -> [x |-> left,   y |-> middle]
         [] preset = "C"  -> [x |-> center, y |-> middle]
         [] preset = "CR" -> [x |-> right,  y |-> middle]
         [] preset = "BL" -> [x |-> left,   y |-> bottom]
         [] preset = "BC" -> [x |-> center, y |-> bottom]
         [] preset = "BR" -> [x |-> right,  y |-> bottom]
         [] OTHER         -> [x |-> Q(0),   y |-> Q(0)]

\* the switch of calculatePositionFromPreset: the unclamped anchor
RawPosition(preset, jewelryWidth, jewelryHeight, logoWidth, logoHeight, margin) ==
    LET left   == margin
        center == Div(Sub(jewelryWidth, logoWidth), Q(2))
        right  == Sub(Sub(jewelryWidth, logoWidth), margin)
        top    == margin
        middle == Div(Sub(jewelryHeight, logoHeight), Q(2))
        bottom == Sub(Sub(jewelryHeight, logoHeight), margin)
    IN CASE preset = "TL" -> [x |-> left,   y |-> top]
         [] preset = "TC" -> [x |-> center, y |-> top]
         [] preset = "TR" -> [x |-> right,  y |-> top]
         [] preset = "CL" -> [x |-> left,   y |-> middle]
         [] preset = "C"  -> [x |-> center, y |-> middle]
         [] preset = "CR" -> [x |-> right,  y |-> middle]
         [] preset = "BL" -> [x |-> left,   y |-> bottom]
         [] preset = "BC" -> [x |-> center, y |-> bottom]
         [] preset = "BR" -> [x |-> right,  y |-> bottom]
         [] OTHER         -> [x |-> Q(0),   y |-> Q(0)]

\* the return statement without the clamp
ClampPositionNone(raw, jewelryWidth, jewelryHeight, logoWidth, logoHeight) ==
    [x |-> raw.x, y |-> raw.y]

\* the clamp with the bounds applied in the other order: the high bound wins
ClampPositionHighWins(raw, jewelryWidth, jewelryHeight, logoWidth, logoHeight) ==
    [x |-> MathMin(MathMax(Q(0), raw.x), Sub(jewelryWidth, logoWidth)),
     y |-> MathMin(MathMax(Q(0), raw.y), Sub(jewelryHeight, logoHeight))]

\* the return statement of calculatePositionFromPreset: the clamp
ClampPosition(raw, jewelryWidth, jewelryHeight, logoWidth, logoHeight) ==
    [x |-> MathMax(Q(0), MathMin(raw.x, Sub(jewelryWidth, logoWidth))),
     y |-> MathMax(Q(0), MathMin(raw.y, Sub(jewelryHeight, logoHeight)))]

calculatePositionFromPreset(preset, jewelryWidth, jewelryHeight, logoWidth, logoHeight, margin) ==
    ClampPosition(
        RawPosition(preset, jewelryWidth, jewelryHeight, logoWidth, logoHeight, margin),
        jewelryWidth, jewelryHeight, logoWidth, logoHeight)

----------------------------------------------------------------------------
(* Inputs *)

\* the most render chains (updateCanvas calls whose image loads are pending)
MaxRenders == 2

\* the most uploads whose read or decode is pending
MaxUploads == 2

\* the most toBlob callbacks pending
MaxExports == 2

\* the most callbacks of all kinds pending
MaxTasks == 2

\* files the user can pick: MIME type image/* or not, decodable or corrupt,
\* and the natural size the decoder reports
Files ==
    { [name |-> "band", isImage |-> TRUE,  decodes |-> TRUE,  width |-> 400,  height |-> 100],
      [name |-> "mark", isImage |-> TRUE,  decodes |-> TRUE,  width |-> 100,  height |-> 100],
      [name |-> "zero", isImage |-> TRUE,  decodes |-> TRUE,  width |-> 0,    height |-> 50],
      [name |-> "bad",  isImage |-> TRUE,  decodes |-> FALSE, width |-> 0,    height |-> 0],
      [name |-> "doc",  isImage |-> FALSE, decodes |-> FALSE, width |-> 0,    height |-> 0] }

File(n) == CHOOSE f \in Files : f.name = n

\* the files offered to each upload slot
Offered ==
    [jewelry |-> {File("band"), File("doc")},
     logo    |-> {File("mark"), File("zero"), File("bad"), File("doc")}]

\* the preset buttons pressed
PresetValues == {"C", "BL"}

UploadType == {"jewelry", "logo"}

\* values the range inputs deliver (lines 456-457, 485-486, 514-515)
SizeValues == {15, 50}

MarginValues == {20, 100}

OpacityValues == {100, 50}

----------------------------------------------------------------------------
(* State *)

VARIABLES
    jewelryImage,   \* useState<ImageData | null>, line 25
    logoImage,      \* useState<ImageData | null>, line 26
    logoSettings,   \* useState<LogoSettings>, line 27
    isProcessing,   \* useState(false), line 37
    canvas,         \* canvasRef: the hidden full-resolution canvas, line 592
    preview,        \* previewCanvasRef, line 572
    renders,        \* updateCanvas calls whose image loads are pending, in start order
    uploads,        \* handleFileUpload calls whose read or decode is pending, in start order
    exports,        \* toBlob calls whose callback is pending
    out,            \* what the last step showed the user: "none", "alert", "download"
    probe,          \* inputs and result of a direct call of the resolver
    selected        \* per upload slot, the file last given to readAsDataURL (line 189)

vars == <<jewelryImage, logoImage, logoSettings, isProcessing, canvas, preview,
          renders, uploads, exports, out, probe, selected>>

NoImage == [file |-> "null", width |-> 0, height |-> 0]

NoProbe == [kind |-> "none"]

\* an HTML canvas is 300 x 150 and blank until sized
BlankCanvas == [width |-> 300, height |-> 150, ops |-> <<>>]

InitialLogoSettings ==
    [x |-> Q(0), y |-> Q(0), width |-> Q(100), height |-> Q(100),
     opacity |-> 100, sizePercentage |-> 15, margin |-> 20, position |-> "TR"]

Init ==
    /\ jewelryImage = NoImage
    /\ logoImage = NoImage
    /\ logoSettings = InitialLogoSettings
    /\ isProcessing = FALSE
    /\ canvas = BlankCanvas
    /\ preview = [width |-> 300, height |-> 150, top |-> [image |-> "none"]]
    /\ renders = <<>>
    /\ uploads = <<>>
    /\ exports = <<>>
    /\ out = "none"
    /\ probe = NoProbe
    /\ selected = [type \in UploadType |-> "none"]

Tasks(r, u, e) == Len(r) + Len(u) + Len(e)

Remove(seq, i) == SubSeq(seq, 1, i - 1) \o SubSeq(seq, i + 1, Len(seq))

----------------------------------------------------------------------------
(* Placement state controller *)

BothImages(j, l) == j # NoImage /\ l # NoImage

\* lines 116-117 and 134-135: the logo's draw size for a size percentage
LogoSize(j, l, percentage) ==
    LET logoWidth  == Div(Mul(Q(j.width), Q(percentage)), Q(100))
        logoHeight == Div(Mul(Q(l.height), logoWidth), Q(l.width))
    IN [width |-> logoWidth, height |-> logoHeight]

\* updateLogoPosition without the guard of line 114
updateLogoPositionNoGuard(preset, j, l, s) ==
    LET size == LogoSize(j, l, s.sizePercentage)
        pos  == calculatePositionFromPreset(preset, Q(j.width), Q(j.height),
                                            size.width, size.height, Q(s.margin))
    IN [s EXCEPT !.position = preset, !.x = pos.x, !.y = pos.y,
                 !.width = size.width, !.height = size.height]

\* updateLogoPosition(preset) called with state j, l, s: the next logoSettings
updateLogoPosition(preset, j, l, s) ==
    IF ~BothImages(j, l) THEN s
    ELSE LET size == LogoSize(j, l, s.sizePercentage)
             pos  == calculatePositionFromPreset(preset, Q(j.width), Q(j.height),
                                                 size.width, size.height, Q(s.margin))
         IN [s EXCEPT !.position = preset, !.x = pos.x, !.y = pos.y,
                      !.width = size.width, !.height = size.height]

\* updateLogoSize(percentage)
updateLogoSize(percentage, j, l, s) ==
    IF ~BothImages(j, l) THEN s
    ELSE LET size == LogoSize(j, l, percentage)
             pos  == calculatePositionFromPreset(s.position, Q(j.width), Q(j.height),
                                                 size.width, size.height, Q(s.margin))
         IN [s EXCEPT !.sizePercentage = percentage,
                      !.width = size.width, !.height = size.height,
                      !.x = pos.x, !.y = pos.y]

\* updateMargin(margin): the position is resolved with the stored width and height
updateMargin(margin, j, l, s) ==
    IF ~BothImages(j, l) THEN s
    ELSE LET pos == calculatePositionFromPreset(s.position, Q(j.width), Q(j.height),
                                                s.width, s.height, Q(margin))
         IN [s EXCEPT !.margin = margin, !.x = pos.x, !.y = pos.y]

----------------------------------------------------------------------------
(* Compositor and preview scaler *)

Render(j, l, s) ==
    [jewelryImage |-> j, logoImage |-> l, logoSettings |-> s, phase |-> "base"]

\* updateCanvas() of the render whose state is j, l, s, applied to rc, the
\* pending renders and the canvas: sizing the canvas clears it
updateCanvas(rc, j, l, s) ==
    IF ~BothImages(j, l) THEN rc
    ELSE [renders |-> Append(rc.renders, Render(j, l, s)),
          canvas  |-> [width |-> j.width, height |-> j.height, ops |-> <<>>]]

DrawOp(image, x, y, width, height, alpha) ==
    [image |-> image.file, x |-> x, y |-> y, width |-> width, height |-> height,
     alpha |-> alpha]

\* drawImage returns without drawing when the source has no pixels or an
\* argument is not finite
Drawable(image, op) ==
    /\ image.width > 0
    /\ image.height > 0
    /\ IsFinite(op.x) /\ IsFinite(op.y) /\ IsFinite(op.width) /\ IsFinite(op.height)

\* ctx.drawImage(jewelryImg, 0, 0): an image that covers the canvas hides
\* what was drawn before (the product photo is taken to be opaque)
DrawBase(cv, j) ==
    LET op == DrawOp(j, Q(0), Q(0), Q(j.width), Q(j.height), 100)
    IN IF ~Drawable(j, op) THEN cv
       ELSE IF j.width >= cv.width /\ j.height >= cv.height
            THEN [cv EXCEPT !.ops = <<op>>]
            ELSE [cv EXCEPT !.ops = Append(@, op)]

\* globalAlpha = opacity / 100; ctx.drawImage(logoImg, x, y, width, height)
DrawLogo(cv, l, s) ==
    LET op == DrawOp(l, s.x, s.y, s.width, s.height, s.opacity)
    IN IF ~Drawable(l, op) THEN cv ELSE [cv EXCEPT !.ops = Append(@, op)]

PreviewMax == 400

\* the conversion of a number to a canvas dimension (unsigned long)
ToDimension(a) == IF IsFinite(a) /\ a[1] > 0 THEN a[1] \div a[2] ELSE 0

NoDraw == [image |-> "none"]

\* the topmost thing drawn on a canvas
Top(ops) == IF ops = <<>> THEN NoDraw ELSE ops[Len(ops)]

\* updatePreviewCanvas(): the preview drawn from the canvas sourceCanvas.  Of
\* the scaled picture the preview keeps the topmost thing drawn.
updatePreviewCanvas(sourceCanvas) ==
    LET scale == MathMin(Div(Q(PreviewMax), Q(sourceCanvas.width)),
                         Div(Q(PreviewMax), Q(sourceCanvas.height)))
        previewWidth  == Mul(Q(sourceCanvas.width), scale)
        previewHeight == Mul(Q(sourceCanvas.height), scale)
    IN [width  |-> ToDimension(previewWidth),
        height |-> ToDimension(previewHeight),
        top    |-> IF sourceCanvas.width = 0 \/ sourceCanvas.height = 0
                   THEN NoDraw ELSE Top(sourceCanvas.ops)]

----------------------------------------------------------------------------
(* React commit: the effects of lines 283-291 *)

\* the dependency list without the two images
PositionDepsChangedNoImages(imageSet, s0, s1) ==
    \/ s1.sizePercentage # s0.sizePercentage
    \/ s1.margin # s0.margin

\* the dependency list with the whole logoSettings object in it
PositionDepsChangedAnySetting(imageSet, s0, s1) ==
    \/ imageSet
    \/ s1 # s0

\* the dependency list of updateLogoPosition (line 129) differs between the
\* states before and after
PositionDepsChanged(imageSet, s0, s1) ==
    \/ imageSet
    \/ s1.sizePercentage # s0.sizePercentage
    \/ s1.margin # s0.margin

\* The commit of jewelryImage j, logoImage l and logoSettings s1 over the
\* settings s0.  imageSet: an image setter ran; settingsSet: setLogoSettings
\* ran (it always stores a new object).  The position effect (line 283) runs
\* updateLogoPosition and the canvas effect (line 289) runs updateCanvas with
\* this commit's state; the settings the position effect stored are
\* committed next, and the canvas effect runs again with them.
Commit(j, l, s0, s1, imageSet, settingsSet) ==
    LET runPosition == PositionDepsChanged(imageSet, s0, s1) /\ BothImages(j, l)
        s2  == IF runPosition THEN updateLogoPosition(s1.position, j, l, s1) ELSE s1
        rc0 == [renders |-> renders, canvas |-> canvas]
        rc1 == IF imageSet \/ settingsSet THEN updateCanvas(rc0, j, l, s1) ELSE rc0
        rc2 == IF runPosition THEN updateCanvas(rc1, j, l, s2) ELSE rc1
    IN [logoSettings |-> s2, renders |-> rc2.renders, canvas |-> rc2.canvas]

\* a change of logoSettings by a handler: s1 is what the handler stored
SettingsEvent(s1, settingsSet) ==
    /\ Tasks(renders, uploads, exports) < MaxTasks
    /\ \E c \in {Commit(jewelryImage, logoImage, logoSettings, s1, FALSE, settingsSet)} :
       /\ Len(c.renders) <= MaxRenders
       /\ Tasks(c.renders, uploads, exports) <= MaxTasks
       /\ logoSettings' = c.logoSettings
       /\ renders' = c.renders
       /\ canvas' = c.canvas
       /\ out' = "none"
       /\ UNCHANGED <<jewelryImage, logoImage, isProcessing, preview, uploads, exports, probe, selected>>

----------------------------------------------------------------------------
(* User events *)

\* a preset button (line 424)
PresetPress(preset) ==
    SettingsEvent(updateLogoPosition(preset, jewelryImage, logoImage, logoSettings),
                  BothImages(jewelryImage, logoImage))

\* a reset that also puts size and margin back to their defaults
ResetPositionAllDefaults ==
    SettingsEvent(updateLogoPosition("TR", jewelryImage, logoImage,
                                     [logoSettings EXCEPT !.sizePercentage = 15,
                                                          !.margin = 20]),
                  BothImages(jewelryImage, logoImage))

\* resetPosition (lines 279-281)
ResetPosition ==
    SettingsEvent(updateLogoPosition("TR", jewelryImage, logoImage, logoSettings),
                  BothImages(jewelryImage, logoImage))

\* the size slider (line 459)
SizeChange(percentage) ==
    SettingsEvent(updateLogoSize(percentage, jewelryImage, logoImage, logoSettings),
                  BothImages(jewelryImage, logoImage))

\* the margin slider (line 517)
MarginChange(margin) ==
    SettingsEvent(updateMargin(margin, jewelryImage, logoImage, logoSettings),
                  BothImages(jewelryImage, logoImage))

\* the opacity setter (line 488): setLogoSettings(prev => ({...prev, opacity}))
setOpacity(opacity, s) == [s EXCEPT !.opacity = opacity]

\* the opacity slider (line 488), rendered when both images are present
OpacityChange(opacity) ==
    /\ BothImages(jewelryImage, logoImage)
    /\ SettingsEvent(setOpacity(opacity, logoSettings), TRUE)

----------------------------------------------------------------------------
(* Upload *)

\* handleFileUpload without the MIME type check of lines 165-168
handleFileUploadNoTypeCheck(file, type) ==
    /\ Tasks(renders, uploads, exports) < MaxTasks
    /\ Len(uploads) < MaxUploads
    /\ uploads' = Append(uploads, [type |-> type, file |-> file, phase |-> "read"])
    /\ selected' = [selected EXCEPT ![type] = file.name]
    /\ out' = "none"
    /\ UNCHANGED <<jewelryImage, logoImage, logoSettings, isProcessing, canvas, preview,
                   renders, exports, probe>>

\* handleFileUpload(file, type) up to reader.readAsDataURL(file)
handleFileUpload(file, type) ==
    /\ Tasks(renders, uploads, exports) < MaxTasks
    /\ IF ~file.isImage
       THEN /\ out' = "alert"
            /\ UNCHANGED <<uploads, selected>>
       ELSE /\ Len(uploads) < MaxUploads
            /\ uploads' = Append(uploads, [type |-> type, file |-> file, phase |-> "read"])
            /\ selected' = [selected EXCEPT ![type] = file.name]
            /\ out' = "none"
    /\ UNCHANGED <<jewelryImage, logoImage, logoSettings, isProcessing, canvas, preview,
                   renders, exports, probe>>

\* reader.onload (lines 171-188): img.src is set and the decode starts
ReaderLoaded(i) ==
    /\ uploads[i].phase = "read"
    /\ uploads' = [uploads EXCEPT ![i].phase = "decode"]
    /\ out' = "none"
    /\ UNCHANGED <<jewelryImage, logoImage, logoSettings, isProcessing, canvas, preview,
                   renders, exports, probe, selected>>

\* img.onload (lines 173-186), then the commit of the image it stored
ImageLoaded(i) ==
    LET u == uploads[i]
        imageData == [file |-> u.file.name, width |-> u.file.width, height |-> u.file.height]
        j == IF u.type = "jewelry" THEN imageData ELSE jewelryImage
        l == IF u.type = "jewelry" THEN logoImage ELSE imageData
    IN /\ u.phase = "decode"
       /\ u.file.decodes
       /\ \E c \in {Commit(j, l, logoSettings, logoSettings, TRUE, FALSE)} :
          /\ Len(c.renders) <= MaxRenders
          /\ jewelryImage' = j
          /\ logoImage' = l
          /\ logoSettings' = c.logoSettings
          /\ renders' = c.renders
          /\ canvas' = c.canvas
          /\ uploads' = Remove(uploads, i)
          /\ out' = "none"
          /\ UNCHANGED <<isProcessing, preview, exports, probe, selected>>

\* the decode fails: img has no onerror handler, nothing runs
ImageError(i) ==
    /\ uploads[i].phase = "decode"
    /\ ~uploads[i].file.decodes
    /\ uploads' = Remove(uploads, i)
    /\ out' = "none"
    /\ UNCHANGED <<jewelryImage, logoImage, logoSettings, isProcessing, canvas, preview,
                   renders, exports, probe, selected>>

----------------------------------------------------------------------------
(* Render callbacks *)

\* jewelryImg.onload (lines 218-236) of the pending render i
JewelryImgLoaded(i) ==
    /\ renders[i].phase = "base"
    /\ canvas' = DrawBase(canvas, renders[i].jewelryImage)
    /\ renders' = [renders EXCEPT ![i].phase = "logo"]
    /\ out' = "none"
    /\ UNCHANGED <<jewelryImage, logoImage, logoSettings, isProcessing, preview,
                   uploads, exports, probe, selected>>

\* logoImg.onload (lines 222-234) of the pending render i
LogoImgLoaded(i) ==
    /\ renders[i].phase = "logo"
    /\ canvas' = DrawLogo(canvas, renders[i].logoImage, renders[i].logoSettings)
    /\ preview' = updatePreviewCanvas(canvas')
    /\ renders' = Remove(renders, i)
    /\ out' = "none"
    /\ UNCHANGED <<jewelryImage, logoImage, logoSettings, isProcessing,
                   uploads, exports, probe, selected>>

----------------------------------------------------------------------------
(* Export *)

\* the Download button without the disabled attribute
DownloadEnabledWhileProcessing == BothImages(jewelryImage, logoImage)

\* the Download button is rendered with both images present and is
\* disabled while isProcessing (lines 547-550)
DownloadEnabled == BothImages(jewelryImage, logoImage) /\ ~isProcessing

\* downloadImage (lines 259-264): toBlob takes the canvas as it is now; of
\* what it takes, the pending export keeps the size
downloadImage ==
    /\ DownloadEnabled
    /\ Len(exports) < MaxExports
    /\ Tasks(renders, uploads, exports) < MaxTasks
    /\ isProcessing' = TRUE
    /\ exports' = Append(exports, [width |-> canvas.width, height |-> canvas.height])
    /\ out' = "none"
    /\ UNCHANGED <<jewelryImage, logoImage, logoSettings, canvas, preview,
                   renders, uploads, probe, selected>>

\* the flag cleared inside the if (blob) branch only
AfterBlobInsideBranch(blob, processing) == IF blob THEN FALSE ELSE processing

\* what the toBlob callback does to isProcessing (lines 265-275)
AfterBlob(blob, processing) == FALSE

\* the toBlob callback (lines 264-276); a canvas without pixels encodes to null
ToBlobCallback(i, blob) ==
    /\ blob => (exports[i].width > 0 /\ exports[i].height > 0)
    /\ out' = IF blob THEN "download" ELSE "none"
    /\ isProcessing' = AfterBlob(blob, isProcessing)
    /\ exports' = Remove(exports, i)
    /\ UNCHANGED <<jewelryImage, logoImage, logoSettings, canvas, preview,
                   renders, uploads, probe, selected>>

ToBlobDelivered == \E i \in DOMAIN exports, blob \in BOOLEAN : ToBlobCallback(i, blob)

----------------------------------------------------------------------------
(* Specifications *)

Next ==
    \/ \E type \in UploadType : \E file \in Offered[type] : handleFileUpload(file, type)
    \/ \E i \in DOMAIN uploads : ReaderLoaded(i)
    \/ \E i \in DOMAIN uploads : ImageLoaded(i)
    \/ \E i \in DOMAIN uploads : ImageError(i)
    \/ \E preset \in PresetValues : PresetPress(preset)
    \/ ResetPosition
    \/ \E percentage \in SizeValues : SizeChange(percentage)
    \/ \E margin \in MarginValues : MarginChange(margin)
    \/ \E opacity \in OpacityValues : OpacityChange(opacity)
    \/ \E i \in DOMAIN renders : JewelryImgLoaded(i)
    \/ \E i \in DOMAIN renders : LogoImgLoaded(i)
    \/ downloadImage
    \/ ToBlobDelivered

Spec == Init /\ [][Next]_vars

\* the browser delivers every toBlob callback
LiveSpec == Spec /\ WF_vars(ToBlobDelivered)

----------------------------------------------------------------------------
(* The resolver called directly *)

\* the arguments a direct call draws
ProbeInputs ==
    [preset : PositionPreset,
     jewelryWidth : {400, 1000}, jewelryHeight : {400, 800},
     logoWidth : {100, 200, 1200}, logoHeight : {100, 900},
     sizePercentage : {5, 15, 50}, margin : {0, 20, 100}]

\* the sizes of the full-resolution canvases a direct call of the preview
\* scaler draws: smaller and larger than the preview, wide and tall
ProbeCanvases ==
    {[width |-> w, height |-> h, ops |-> <<>>] : w \in {200, 300, 700, 1000},
                                                h \in {150, 500, 900}}

ProbeInit ==
    /\ jewelryImage = NoImage
    /\ logoImage = NoImage
    /\ logoSettings = InitialLogoSettings
    /\ isProcessing = FALSE
    /\ canvas = BlankCanvas
    /\ preview = [width |-> 300, height |-> 150, top |-> [image |-> "none"]]
    /\ renders = <<>>
    /\ uploads = <<>>
    /\ exports = <<>>
    /\ out = "none"
    /\ probe \in {[kind |-> "input", in |-> in] : in \in ProbeInputs}
                \cup {[kind |-> "canvas", source |-> cv] : cv \in ProbeCanvases}
    /\ selected = [type \in UploadType |-> "none"]

\* updateLogoPosition(preset) with images of the drawn natural sizes and
\* settings of the drawn size percentage and margin
ProbeResolve ==
    /\ probe.kind = "input"
    /\ LET in == probe.in
           j  == [file |-> "base", width |-> in.jewelryWidth, height |-> in.jewelryHeight]
           l  == [file |-> "logo", width |-> in.logoWidth, height |-> in.logoHeight]
           s  == [InitialLogoSettings EXCEPT !.sizePercentage = in.sizePercentage,
                                             !.margin = in.margin]
       IN probe' = [kind |-> "rect", in |-> in,
                    result |-> updateLogoPosition(in.preset, j, l, s)]
    /\ UNCHANGED <<jewelryImage, logoImage, logoSettings, isProcessing, canvas, preview,
                   renders, uploads, exports, out, selected>>

\* calculatePositionFromPreset with the drawn logo size as the draw size
ProbeCalculate ==
    /\ probe.kind = "input"
    /\ LET in == probe.in
       IN probe' = [kind |-> "position", in |-> in,
                    result |-> calculatePositionFromPreset(
                                   in.preset, Q(in.jewelryWidth), Q(in.jewelryHeight),
                                   Q(in.logoWidth), Q(in.logoHeight), Q(in.margin))]
    /\ UNCHANGED <<jewelryImage, logoImage, logoSettings, isProcessing, canvas, preview,
                   renders, uploads, exports, out, selected>>

\* values the handlers are called with directly, inside and outside the
\* ranges of the range inputs (5..50, 0..100, 10..100)
SizeArgs == {4, 15, 51}

MarginArgs == {-1, 20, 101}

OpacityArgs == {9, 50, 101}

\* the images and the resolved settings a direct call of a handler starts from
ProbeJewelry(in) == [file |-> "base", width |-> in.jewelryWidth, height |-> in.jewelryHeight]

ProbeLogo(in) == [file |-> "logo", width |-> in.logoWidth, height |-> in.logoHeight]

ProbeSettings(in) ==
    updateLogoPosition(in.preset, ProbeJewelry(in), ProbeLogo(in),
                       [InitialLogoSettings EXCEPT !.sizePercentage = in.sizePercentage,
                                                   !.margin = in.margin])

ProbeHandler(handler, arg, result) ==
    /\ probe.kind = "input"
    /\ probe' = [kind |-> "settings", in |-> probe.in, handler |-> handler,
                 arg |-> arg, before |-> ProbeSettings(probe.in), result |-> result]
    /\ UNCHANGED <<jewelryImage, logoImage, logoSettings, isProcessing, canvas, preview,
                   renders, uploads, exports, out, selected>>

\* updateLogoSize(percentage) called directly
ProbeUpdateLogoSize ==
    \E percentage \in SizeArgs :
        ProbeHandler("updateLogoSize", percentage,
                     updateLogoSize(percentage, ProbeJewelry(probe.in), ProbeLogo(probe.in),
                                    ProbeSettings(probe.in)))

\* updateMargin(margin) called directly
ProbeUpdateMargin ==
    \E margin \in MarginArgs :
        ProbeHandler("updateMargin", margin,
                     updateMargin(margin, ProbeJewelry(probe.in), ProbeLogo(probe.in),
                                  ProbeSettings(probe.in)))

\* the opacity setter called directly
ProbeSetOpacity ==
    \E opacity \in OpacityArgs :
        ProbeHandler("setOpacity", opacity, setOpacity(opacity, ProbeSettings(probe.in)))

\* updatePreviewCanvas() with a full-resolution canvas of the drawn size
ProbePreview ==
    /\ probe.kind = "canvas"
    /\ probe' = [kind |-> "preview", source |-> probe.source,
                 result |-> updatePreviewCanvas(probe.source)]
    /\ UNCHANGED <<jewelryImage, logoImage, logoSettings, isProcessing, canvas, preview,
                   renders, uploads, exports, out, selected>>

ProbeNext ==
    \/ ProbePreview
    \/ ProbeResolve
    \/ ProbeCalculate
    \/ ProbeUpdateLogoSize
    \/ ProbeUpdateMargin
    \/ ProbeSetOpacity

ResolverSpec == ProbeInit /\ [][ProbeNext]_vars

----------------------------------------------------------------------------
(* Claims *)

\* the render r was started for a parameter set that is no longer the current one
StaleRender(r) ==
    <<r.jewelryImage, r.logoImage, r.logoSettings>> # <<jewelryImage, logoImage, logoSettings>>

\* C1: no draw step of a render started for an older parameter set is applied
\* to the canvas or the preview once a render for a newer set has started.
\* The newest render always carries the current state, so a draw step must
\* belong to a render whose parameters are the current ones.
StaleRendersDiscarded ==
    [][\A i \in DOMAIN renders :
          (JewelryImgLoaded(i) \/ LogoImgLoaded(i)) => ~StaleRender(renders[i])]_vars

\* the composite of the current state: the base, then the logo once
CurrentBaseOp ==
    DrawOp(jewelryImage, Q(0), Q(0), Q(jewelryImage.width), Q(jewelryImage.height), 100)

CurrentLogoOp ==
    DrawOp(logoImage, logoSettings.x, logoSettings.y, logoSettings.width,
           logoSettings.height, logoSettings.opacity)

\* C2: whenever no render step is pending, the canvas has the base's size and
\* holds the current base with the logo blended exactly once at the current
\* rect and opacity, and the preview was made from that canvas after the logo
\* was drawn (stated for a logo of positive width).
ConsistentRenderWhenIdle ==
    (renders = <<>> /\ BothImages(jewelryImage, logoImage) /\ logoImage.width > 0) =>
        /\ canvas.width = jewelryImage.width
        /\ canvas.height = jewelryImage.height
        /\ canvas.ops = <<CurrentBaseOp, CurrentLogoOp>>
        /\ preview.top = CurrentLogoOp

InRange(s) == s.sizePercentage \in 5..50 /\ s.margin \in 0..100

\* C3 as claimed: with both images present (natural sizes positive) the rect
\* lies inside the base image, also when the scaled logo is taller than the base.
RectInsideBase ==
    (BothImages(jewelryImage, logoImage) /\ logoImage.width > 0 /\ InRange(logoSettings)) =>
        /\ Leq(Q(0), logoSettings.x)
        /\ Leq(Q(0), logoSettings.y)
        /\ Leq(Add(logoSettings.x, logoSettings.width), Q(jewelryImage.width))
        /\ Leq(Add(logoSettings.y, logoSettings.height), Q(jewelryImage.height))

\* C3 as amended: with both images present the rect lies inside the base
\* image horizontally, and vertically whenever the scaled logo height does
\* not exceed the base height.
RectInsideBaseWhenItFits ==
    (BothImages(jewelryImage, logoImage) /\ InRange(logoSettings)) =>
        /\ Leq(Q(0), logoSettings.x)
        /\ Leq(Add(logoSettings.x, logoSettings.width), Q(jewelryImage.width))
        /\ Leq(logoSettings.height, Q(jewelryImage.height)) =>
              /\ Leq(Q(0), logoSettings.y)
              /\ Leq(Add(logoSettings.y, logoSettings.height), Q(jewelryImage.height))

\* a logo scaled taller than the base, anchored at the bottom left, and a
\* rect that the clamp moved up from the top margin
TallLogoResolved ==
    /\ BothImages(jewelryImage, logoImage)
    /\ logoSettings.position = "BL"
    /\ IsFinite(logoSettings.height)
    /\ Less(Q(jewelryImage.height), logoSettings.height)
    /\ logoSettings.y = Q(0)

\* C4: the stored rect is a function of the current parameters and image
\* sizes: width = baseW * sizePercentage / 100, height = logoH * width / logoW,
\* and (x, y) is the resolver's output for the active preset and the current
\* margin.
RectIsFunctionOfParams ==
    BothImages(jewelryImage, logoImage) =>
        LET width  == Norm(jewelryImage.width * logoSettings.sizePercentage, 100)
            height == Div(Mul(Q(logoImage.height), width), Q(logoImage.width))
            pos    == calculatePositionFromPreset(
                          logoSettings.position, Q(jewelryImage.width),
                          Q(jewelryImage.height), width, height, Q(logoSettings.margin))
        IN /\ logoSettings.width = width
           /\ logoSettings.height = height
           /\ logoSettings.x = pos.x
           /\ logoSettings.y = pos.y

\* margin, size and preset all changed from their defaults, every render
\* they started finished
RectAfterMarginAndSize ==
    /\ BothImages(jewelryImage, logoImage)
    /\ logoImage.width > 0
    /\ logoSettings.margin = 100
    /\ logoSettings.sizePercentage = 50
    /\ logoSettings.position = "C"
    /\ renders = <<>>

TopPresets == {"TL", "TC", "TR"}

MiddlePresets == {"CL", "C", "CR"}

LeftPresets == {"TL", "CL", "BL"}

CenterPresets == {"TC", "C", "BC"}

\* the anchor along one axis: near edge, centre or far edge
Anchor(near, centre, base, logo, margin) ==
    IF near THEN margin
    ELSE IF centre THEN Div(Sub(base, logo), Q(2))
    ELSE Sub(Sub(base, logo), margin)

Clamped(raw, base, logo) == MathMax(Q(0), MathMin(raw, Sub(base, logo)))

ScenarioTR ==
    [preset |-> "TR", jewelryWidth |-> 1000, jewelryHeight |-> 800,
     logoWidth |-> 200, logoHeight |-> 100, sizePercentage |-> 15, margin |-> 20]

\* C5: for each preset x = max(0, min(rawX, baseW - logoW)) and
\* y = max(0, min(rawY, baseH - logoH)), rawX the left, centre or right anchor
\* chosen by the second preset letter and rawY the top, middle or bottom
\* anchor chosen by the first; 1000x800, 200x100, 15, 20, TR gives 150 x 75
\* at (830, 20) and 400x400, 100x100, 50, C gives 200 x 200 at (100, 100).
ResolverUsesAnchorFormulas ==
    probe.kind \in {"rect", "position"} =>
        LET in    == probe.in
            logoW == IF probe.kind = "rect" THEN probe.result.width ELSE Q(in.logoWidth)
            logoH == IF probe.kind = "rect" THEN probe.result.height ELSE Q(in.logoHeight)
            rawX  == Anchor(in.preset \in LeftPresets, in.preset \in CenterPresets,
                            Q(in.jewelryWidth), logoW, Q(in.margin))
            rawY  == Anchor(in.preset \in TopPresets, in.preset \in MiddlePresets,
                            Q(in.jewelryHeight), logoH, Q(in.margin))
        IN /\ probe.result.x = Clamped(rawX, Q(in.jewelryWidth), logoW)
           /\ probe.result.y = Clamped(rawY, Q(in.jewelryHeight), logoH)
           /\ (probe.kind = "rect" /\ in = ScenarioTR) =>
                 /\ probe.result.width = <<150, 1>>
                 /\ probe.result.height = <<75, 1>>
                 /\ probe.result.x = <<830, 1>>
                 /\ probe.result.y = <<20, 1>>
           /\ (/\ probe.kind = "rect"
               /\ in.preset = "C" /\ in.sizePercentage = 50
               /\ in.jewelryWidth = 400 /\ in.jewelryHeight = 400
               /\ in.logoWidth = 100 /\ in.logoHeight = 100) =>
                 /\ probe.result.width = <<200, 1>>
                 /\ probe.result.height = <<200, 1>>
                 /\ probe.result.x = <<100, 1>>
                 /\ probe.result.y = <<100, 1>>

\* the top-right scenario resolved
ScenarioTRResolved ==
    /\ probe.kind = "rect"
    /\ probe.in = ScenarioTR
    /\ probe.result.x = <<830, 1>>

\* C6: if the logo fits (logoW <= baseW, logoH <= baseH) the resolved x is in
\* [0, baseW - logoW] and y in [0, baseH - logoH]; if logoW > baseW then x = 0
\* and if logoH > baseH then y = 0.
ClampKeepsPositionInRange ==
    probe.kind = "position" =>
        LET in == probe.in
            x  == probe.result.x
            y  == probe.result.y
        IN /\ (in.logoWidth <= in.jewelryWidth /\ in.logoHeight <= in.jewelryHeight) =>
                 /\ x[2] > 0 /\ 0 <= x[1]
                 /\ x[1] <= (in.jewelryWidth - in.logoWidth) * x[2]
                 /\ y[2] > 0 /\ 0 <= y[1]
                 /\ y[1] <= (in.jewelryHeight - in.logoHeight) * y[2]
           /\ in.logoWidth > in.jewelryWidth => x = <<0, 1>>
           /\ in.logoHeight > in.jewelryHeight => y = <<0, 1>>

\* a logo wider than the base resolved to x = 0 while y keeps its anchor
LowBoundWins ==
    /\ probe.kind = "position"
    /\ probe.in.logoWidth > probe.in.jewelryWidth
    /\ probe.in.logoHeight <= probe.in.jewelryHeight
    /\ probe.in.preset = "BR"
    /\ probe.result.x = <<0, 1>>
    /\ probe.result.y # <<0, 1>>

\* C7: at most one export is in flight at any time and none is queued.
AtMostOneExport == Len(exports) <= 1 /\ (exports # <<>> => isProcessing)

\* an export in flight with the Download button rendered
ExportInFlight ==
    /\ Len(exports) = 1
    /\ isProcessing
    /\ BothImages(jewelryImage, logoImage)

\* C8: every started export is followed by the processing flag being cleared,
\* with a blob and with a null blob.
ProcessingEventuallyCleared == isProcessing ~> ~isProcessing

\* an export whose callback was delivered
ExportDelivered == ~isProcessing /\ exports = <<>> /\ out = "download"

\* C9: a logo of natural width 0 is rejected: logoImage never holds one and
\* no rect whose height came from a division by zero is stored.
ZeroWidthLogoRejected ==
    /\ logoImage # NoImage => logoImage.width > 0
    /\ IsFinite(logoSettings.height)

\* C10: a decode failure and an export encode failure are reported to the
\* user, never passed over in silence.
FailuresAreReported ==
    [][((\E i \in DOMAIN uploads : ImageError(i))
          \/ (\E i \in DOMAIN exports : ToBlobCallback(i, FALSE))) => out' = "alert"]_vars

\* C11: a file whose MIME type is not image/* is reported at once and changes
\* no state, for both upload slots: the images, the settings, the canvas and
\* the preview stay as they are and no read or decode is started.
NonImageFileChangesNothing ==
    [][\A type \in UploadType : \A file \in Offered[type] :
          (~file.isImage /\ handleFileUpload(file, type)) =>
              /\ out' = "alert"
              /\ UNCHANGED <<jewelryImage, logoImage, logoSettings, isProcessing,
                             canvas, preview, renders, uploads, exports, selected>>]_vars

\* a non-image file was refused while both images were present and a render
\* was pending
NonImageFileRefused ==
    /\ out = "alert"
    /\ BothImages(jewelryImage, logoImage)
    /\ renders # <<>>

\* C12: the handlers clamp what they are given: after updateLogoSize,
\* updateMargin or the opacity setter, called with a value inside or outside
\* its range, sizePercentage is in 5..50, margin in 0..100 and opacity in
\* 10..100.
ParametersClamped ==
    probe.kind = "settings" =>
        /\ probe.result.sizePercentage \in 5..50
        /\ probe.result.margin \in 0..100
        /\ probe.result.opacity \in 10..100

\* a positive number rounded to the nearest integer
Round(a) == (2 * a[1] + a[2]) \div (2 * a[2])

\* C13: the preview of a W x H canvas has size round(W*s) x round(H*s) with
\* s = min(400/W, 400/H), smaller sources scaled up: the larger dimension is
\* 400 and the smaller one is the proportional value rounded, not truncated.
PreviewSizeRounded ==
    probe.kind = "preview" =>
        LET W == probe.source.width
            H == probe.source.height
            s == IF W >= H THEN Norm(400, W) ELSE Norm(400, H)
        IN /\ probe.result.width = Round(Mul(Q(W), s))
           /\ probe.result.height = Round(Mul(Q(H), s))
           /\ (IF W >= H THEN probe.result.width ELSE probe.result.height) = 400

\* C14: an opacity change stores the new opacity and leaves x, y, width,
\* height, sizePercentage, margin and position as they were, and the position
\* effect does not run: the change starts the one render of the canvas
\* effect and no second one for re-resolved settings.
OpacityChangeKeepsRect ==
    [][\A opacity \in OpacityValues :
          OpacityChange(opacity) =>
              /\ logoSettings' = [logoSettings EXCEPT !.opacity = opacity]
              /\ renders' = Append(renders, Render(jewelryImage, logoImage, logoSettings'))]_vars

\* the opacity was changed and the logo drawn with it at the rect resolved
\* before
OpacityChanged ==
    /\ BothImages(jewelryImage, logoImage)
    /\ logoSettings.opacity = 50
    /\ logoSettings.position = "BL"
    /\ renders = <<>>
    /\ canvas.ops # <<>>
    /\ Top(canvas.ops) = CurrentLogoOp

\* the rect of the defaults (15 %, margin 20, top right) for the current images
DefaultRect ==
    LET width  == Norm(jewelryImage.width * 15, 100)
        height == Div(Mul(Q(logoImage.height), width), Q(logoImage.width))
    IN [x |-> MathMax(Q(0), MathMin(Sub(Sub(Q(jewelryImage.width), width), Q(20)),
                                    Sub(Q(jewelryImage.width), width))),
        y |-> MathMax(Q(0), MathMin(Q(20), Sub(Q(jewelryImage.height), height))),
        width |-> width, height |-> height]

DefaultsResolved ==
    /\ logoSettings.sizePercentage = 15
    /\ logoSettings.margin = 20
    /\ logoSettings.opacity = 100
    /\ logoSettings.position = "TR"
    /\ logoSettings.x = DefaultRect.x
    /\ logoSettings.y = DefaultRect.y
    /\ logoSettings.width = DefaultRect.width
    /\ logoSettings.height = DefaultRect.height

\* C15: while fewer than two images are present logoSettings keeps its
\* initial value, whatever preset, size, margin and reset operations are
\* tried; in the first state with both images present the parameters are the
\* defaults (15, 20, 100, TR) and the rect is the one resolved from them.
DefaultsUntilBothImages ==
    /\ [](~BothImages(jewelryImage, logoImage) => logoSettings = InitialLogoSettings)
    /\ [][(~BothImages(jewelryImage, logoImage) /\ BothImages(jewelryImage, logoImage)')
              => DefaultsResolved']_vars

\* the first state with both images present: base 400 x 100 and logo
\* 100 x 100 give the rect 60 x 60 at (320, 20), nothing drawn yet
FirstStateWithBothImages ==
    /\ BothImages(jewelryImage, logoImage)
    /\ logoSettings.x = Q(320)
    /\ logoSettings.y = Q(20)
    /\ logoSettings.width = Q(60)
    /\ Len(renders) = 2
    /\ preview.top = NoDraw

\* C16: whenever downloadImage reads the canvas (toBlob), no render is in
\* flight and the canvas holds the current base with the logo drawn once at
\* the current rect and opacity (stated for a logo of positive width).
ExportEncodesFinishedComposite ==
    [][(downloadImage /\ logoImage.width > 0) =>
          /\ renders = <<>>
          /\ canvas.ops = <<CurrentBaseOp, CurrentLogoOp>>]_vars

\* the image an upload slot holds
Slot(type) == IF type = "jewelry" THEN jewelryImage ELSE logoImage

\* C17: once no read or decode is pending for an upload slot, the slot holds
\* the file selected last for it (a file that decodes), in whatever order the
\* callbacks of successive selections completed.
LastSelectedWins ==
    \A type \in UploadType :
        (/\ selected[type] # "none"
         /\ File(selected[type]).decodes
         /\ \A i \in DOMAIN uploads : uploads[i].type # type)
            => Slot(type).file = selected[type]

\* the settings a handler would store, s1, applied to the state after the
\* step and committed, leave logoSettings as the step left it
AppliedAgain(s1) ==
    \E s \in {s1} :
        Commit(jewelryImage', logoImage', logoSettings', s, FALSE, TRUE).logoSettings
            = logoSettings'

\* what every step of a settings handler leaves alone, with both images present
SettingsStep ==
    /\ BothImages(jewelryImage, logoImage)
    /\ UNCHANGED <<jewelryImage, logoImage, isProcessing, preview, uploads, exports, selected>>
    /\ Len(renders') > Len(renders)

\* C18: with both images present, a preset press, a size value or a margin
\* value applied a second time right after the first, images unchanged,
\* leaves logoSettings as the first application left it; and every Reset step
\* is a press of the TR preset.  (Only a SettingsStep can be one of these
\* events, and each stores the value it was given.)
SnapIsIdempotent ==
    [][SettingsStep =>
       /\ \A preset \in PresetValues :
             (logoSettings'.position = preset /\ PresetPress(preset)) =>
                 AppliedAgain(updateLogoPosition(preset, jewelryImage', logoImage',
                                                 logoSettings'))
       /\ \A percentage \in SizeValues :
             (logoSettings'.sizePercentage = percentage /\ SizeChange(percentage)) =>
                 AppliedAgain(updateLogoSize(percentage, jewelryImage', logoImage',
                                             logoSettings'))
       /\ \A margin \in MarginValues :
             (logoSettings'.margin = margin /\ MarginChange(margin)) =>
                 AppliedAgain(updateMargin(margin, jewelryImage', logoImage',
                                           logoSettings'))
       /\ (logoSettings'.position = "TR" /\ ResetPosition) =>
             /\ PresetPress("TR")
             /\ AppliedAgain(updateLogoPosition("TR", jewelryImage', logoImage',
                                                 logoSettings'))]_vars

\* the C preset pressed twice in a row with the default size and margin: two
\* renders pending for the same settings
SameSettingsAppliedTwice ==
    /\ BothImages(jewelryImage, logoImage)
    /\ logoImage.width > 0
    /\ logoSettings.position = "C"
    /\ logoSettings.sizePercentage = 15
    /\ logoSettings.margin = 20
    /\ Len(renders) = 2
    /\ renders[1] = renders[2]
    /\ renders[2].logoSettings = logoSettings

====
